---- MODULE Spec2Model ----
(***************************************************************************)
(* A* pathfinding visualizer: the suspendable search engine                *)
(* (src/algorithms/astar.ts: astarGenerator, heuristic,                    *)
(* getUnvisitedNeighbors, getNodesInShortestPathOrder) over the node shape *)
(* of src/types.ts.  A node is identified by its <<row, col>> position;    *)
(* each field of NodeType is a function from nodes to values.              *)
(*                                                                         *)
(* The driver (src/components/Node.tsx, component Pathfinder) is modelled  *)
(* with one action per event handler and timer callback.  React commits    *)
(* the state set by a handler before the next event is handled, so a       *)
(* handler reads the state the previous one left; a timer callback keeps   *)
(* the `grid` of the render in which it was created.                       *)
(***************************************************************************)
EXTENDS Integers, Sequences, FiniteSets, TLC

\* ------------------------------------------------------------------ bounds
MaxRows == 2
MaxCols == 3
MaxWalls == 3

\* GRID_ROWS, GRID_COLS of the driver's grid.  They are imported from a
\* constants module that is not among the sources (Node.tsx lines 49-57);
\* the model takes a small grid whose start and finish nodes are two
\* opposite corners.
GridRows == 2
GridCols == 2

\* JavaScript's Infinity, the default of every score (createNode); finite
\* scores of the model stay far below it.
Infinity == 1000000

\* previousNode: null
Null == <<>>

VARIABLES
  rows, cols,        \* grid.length, grid[0].length
  isWall,            \* NodeType.isWall
  startNode,         \* the startNode argument of astarGenerator
  finishNode,        \* the finishNode argument of astarGenerator
  distance, gScore, hScore, fScore,   \* NodeType scores
  isVisited,         \* NodeType.isVisited
  previousNode,      \* NodeType.previousNode
  openSet,           \* the generator's local openSet (an array)
  pc,                \* where the generator is suspended
  closestNode,       \* the generator's local closestNode
  neighbors,         \* the generator's local neighbors
  nbrIdx,            \* position of the for..of loop in neighbors
  step,              \* the AlgoStep the last next() returned
  pathCalled,        \* getNodesInShortestPathOrder(finishNode) was called
  path,              \* what that call returned
  grid,              \* useState grid: a reference to a GridType object
  mouseIsPressed,    \* useState mouseIsPressed
  isRunning,         \* useState isRunning
  isFinished,        \* useState isFinished
  isPaused,          \* useState isPaused
  generatorRef,      \* generatorRef.current is a generator
  intervalRef,       \* intervalRef.current and the grid its callback closes over
  playTimeout,       \* handlePlay's pending setTimeout and the grid it closes over
  pathOnLive,        \* performStep handed the generator's own finish node
                     \* to getNodesInShortestPathOrder
  timers,            \* number of setInterval timers not yet cleared
  halted,            \* the last control the user issued was Pause or Reset
  display,           \* className and innerHTML of each cell's DOM element
  pathTimeouts,      \* animatePath's pending setTimeout callbacks, in order
  resetTimeout       \* handleReset's setTimeout (the display clear) is pending

vars == <<rows, cols, isWall, startNode, finishNode, distance, gScore, hScore,
          fScore, isVisited, previousNode, openSet, pc, closestNode,
          neighbors, nbrIdx, step, pathCalled, path, grid, mouseIsPressed,
          isRunning, isFinished, isPaused, generatorRef, intervalRef,
          playTimeout, pathOnLive, timers, halted, display, pathTimeouts,
          resetTimeout>>

gridVars == <<rows, cols, isWall, startNode, finishNode>>
nodeVars == <<distance, gScore, hScore, fScore, isVisited, previousNode>>
genVars == <<openSet, pc, closestNode, neighbors, nbrIdx, step>>
flagVars == <<isRunning, isFinished, isPaused>>
driverVars == <<grid, mouseIsPressed, isRunning, isFinished, isPaused,
                generatorRef, intervalRef, playTimeout, pathOnLive, timers,
                halted, display, pathTimeouts, resetTimeout>>
domVars == <<display, pathTimeouts, resetTimeout>>

\* ------------------------------------------------------------- the grid
Cells(r, c) == (0 .. r - 1) \X (0 .. c - 1)
Nodes == Cells(rows, cols)

Abs(x) == IF x < 0 THEN -x ELSE x

\* JavaScript addition on numbers that are finite or Infinity
Plus(x, y) == IF x = Infinity \/ y = Infinity THEN Infinity ELSE x + y

\* No AlgoStep yet / the generator completed
NoStep == [type |-> "none", nodes |-> <<>>]
AlgoStep(n, t) == [type |-> t, nodes |-> <<n>>]

\* START_NODE_ROW/COL and FINISH_NODE_ROW/COL: two opposite corners
StartPos == <<0, 0>>
FinishPos == <<GridRows - 1, GridCols - 1>>

\* createNode: a fresh node
createNode(n) ==
  [col |-> n[2], row |-> n[1],
   isStart |-> n = StartPos, isFinish |-> n = FinishPos,
   distance |-> Infinity, isVisited |-> FALSE, isWall |-> FALSE,
   previousNode |-> Null,
   gScore |-> Infinity, hScore |-> Infinity, fScore |-> Infinity]

\* getInitialGrid: GRID_ROWS x GRID_COLS fresh nodes
getInitialGrid == [n \in Cells(GridRows, GridCols) |-> createNode(n)]

\* A reference to a grid object: the grid the generator in generatorRef
\* works on (whose nodes are the node variables above), or another grid,
\* given by its nodes.
LiveGrid == [live |-> TRUE, nodes |-> <<>>]
GridValue(g) == [live |-> FALSE, nodes |-> g]

\* no timer pending
NoTimer == [set |-> FALSE, grid |-> GridValue(<<>>)]
Timer(ref) == [set |-> TRUE, grid |-> ref]

\* What a cell's DOM element shows: the colour class of its className
\* ("plain" for none) and its innerHTML ("" empty, "label" the Start / End
\* label, "costs" the three scores)
Shown(class, content) == [class |-> class, content |-> content]

\* the extraClasses of the Node component (Node.tsx lines 17-24)
extraClasses(node) ==
  IF node.isFinish THEN "finish"
  ELSE IF node.isStart THEN "start"
  ELSE IF node.isWall THEN "wall"
  ELSE "plain"

\* the DOM as React builds it from the initial grid
MountedDisplay ==
  [n \in Cells(GridRows, GridCols) |->
     Shown(extraClasses(getInitialGrid[n]),
           IF getInitialGrid[n].isStart \/ getInitialGrid[n].isFinish
             THEN "label" ELSE "")]

\* React commits a render after setGrid: an element's className is written
\* only where the className computed from the props changed, and the
\* children React rendered did not change.
Render(old, new, shown) ==
  [n \in DOMAIN shown |->
     IF extraClasses(old[n]) # extraClasses(new[n])
       THEN [shown[n] EXCEPT !.class = extraClasses(new[n])]
       ELSE shown[n]]

\* resetDOMForRun in a closure whose `grid` has the nodes g
resetDOMForRun(g) ==
  [n \in DOMAIN g |->
     Shown(IF g[n].isStart THEN "start"
           ELSE IF g[n].isFinish THEN "finish"
           ELSE IF g[n].isWall THEN "wall"
           ELSE "plain",
           IF g[n].isStart \/ g[n].isFinish THEN "label" ELSE "")]

\* generateNodeContent for scores g, h, f
generateNodeContent(g, h, f) ==
  IF g = Infinity /\ h = Infinity /\ f = Infinity THEN "" ELSE "costs"

\* updateNodeDOM(node, type) for the node at n whose innerHTML becomes
\* content; the className of the start and finish cells is left alone
updateNodeDOM(shown, n, type, content) ==
  [shown EXCEPT ![n] =
     Shown(IF n = StartPos \/ n = FinishPos THEN @.class ELSE type, content)]

\* the display handleReset's setTimeout callback leaves
ClearedDisplay ==
  [n \in Cells(GridRows, GridCols) |->
     IF getInitialGrid[n].isStart THEN Shown("start", "label")
     ELSE IF getInitialGrid[n].isFinish THEN Shown("finish", "label")
     ELSE Shown("plain", "")]

\* heuristic with the larger of the two offsets in place of their sum
heuristicChebyshev(node, finish) ==
  IF Abs(node[1] - finish[1]) > Abs(node[2] - finish[2])
    THEN Abs(node[1] - finish[1])
    ELSE Abs(node[2] - finish[2])

\* Manhattan distance heuristic
heuristic(node, finish) ==
  Abs(node[1] - finish[1]) + Abs(node[2] - finish[2])

\* the up-to-4 neighbours in the order up, down, left, right
AllNeighbors(node) ==
  LET row == node[1]
      col == node[2]
  IN  (IF row > 0 THEN << <<row - 1, col>> >> ELSE <<>>)
      \o (IF row < rows - 1 THEN << <<row + 1, col>> >> ELSE <<>>)
      \o (IF col > 0 THEN << <<row, col - 1>> >> ELSE <<>>)
      \o (IF col < cols - 1 THEN << <<row, col + 1>> >> ELSE <<>>)

getUnvisitedNeighbors(node) ==
  SelectSeq(AllNeighbors(node), LAMBDA neighbor : ~isVisited[neighbor])

\* The comparator of openSet.sort: a.fScore - b.fScore || a.hScore - b.hScore.
\* Sign(x, y) is the sign of x - y; Infinity - Infinity is NaN, which is falsy
\* for || and which sort treats as 0.
Sign(x, y) ==
  IF x = Infinity /\ y = Infinity THEN 0
  ELSE IF x < y THEN -1 ELSE IF x > y THEN 1 ELSE 0

\* the comparator without its tie-break: a.fScore - b.fScore
compareNodesNoTieBreak(a, b) == Sign(fScore[a], fScore[b])

\* the comparator with its operands swapped: b.fScore - a.fScore || ...
compareNodesDescending(a, b) ==
  IF Sign(fScore[b], fScore[a]) # 0
    THEN Sign(fScore[b], fScore[a])
    ELSE Sign(hScore[b], hScore[a])

compareNodes(a, b) ==
  IF Sign(fScore[a], fScore[b]) # 0
    THEN Sign(fScore[a], fScore[b])
    ELSE Sign(hScore[a], hScore[b])

\* Array.prototype.sort is stable: x goes after every element that does not
\* compare greater than it.
RECURSIVE InsertSorted(_, _)
InsertSorted(s, x) ==
  IF s = <<>> THEN <<x>>
  ELSE IF compareNodes(Head(s), x) <= 0
         THEN <<Head(s)>> \o InsertSorted(Tail(s), x)
         ELSE <<x>> \o s

RECURSIVE SortOpenSet(_)
SortOpenSet(s) ==
  IF s = <<>> THEN <<>>
  ELSE InsertSorted(SortOpenSet(SubSeq(s, 1, Len(s) - 1)), s[Len(s)])

includes(s, x) == \E i \in 1 .. Len(s) : s[i] = x

\* the loop head without `if (closestNode.isWall) continue`
PopClosestNoWallSkip(open) ==
  IF Len(open) = 0
    THEN [open |-> open, node |-> Null, exit |-> "empty"]
    ELSE LET sorted == SortOpenSet(open)
             closest == Head(sorted)
             rest == Tail(sorted)
         IN  IF distance[closest] = Infinity
               THEN [open |-> rest, node |-> closest, exit |-> "infinite"]
               ELSE [open |-> rest, node |-> closest, exit |-> "visit"]

\* The head of the while loop, from its test to the first statement that
\* leaves it: sort, shift, skip walls.  Yields the open set left behind, the
\* node popped and how the loop head ended.
RECURSIVE PopClosest(_)
PopClosest(open) ==
  IF Len(open) = 0
    THEN [open |-> open, node |-> Null, exit |-> "empty"]
    ELSE LET sorted == SortOpenSet(open)
             closest == Head(sorted)
             rest == Tail(sorted)
         IN  IF isWall[closest] THEN PopClosest(rest)
             ELSE IF distance[closest] = Infinity
               THEN [open |-> rest, node |-> closest, exit |-> "infinite"]
               ELSE [open |-> rest, node |-> closest, exit |-> "visit"]

\* the relaxation test with <= in place of <
RelaxesOnEqual(closest, neighbor) == Plus(gScore[closest], 1) <= gScore[neighbor]

\* The relaxation test of the for loop
Relaxes(closest, neighbor) == Plus(gScore[closest], 1) < gScore[neighbor]

\* The first position >= i of nbrs whose neighbour is relaxed, or 0
RECURSIVE NextRelaxed(_, _, _)
NextRelaxed(closest, nbrs, i) ==
  IF i > Len(nbrs) THEN 0
  ELSE IF Relaxes(closest, nbrs[i]) THEN i
  ELSE NextRelaxed(closest, nbrs, i + 1)

\* the walk with push in place of unshift
RECURSIVE WalkBackPush(_, _)
WalkBackPush(currentNode, acc) ==
  IF currentNode = Null THEN acc
  ELSE WalkBackPush(previousNode[currentNode], acc \o <<currentNode>>)

\* the walk that stops at the node without previousNode instead of after it
RECURSIVE WalkBackSkipLast(_, _)
WalkBackSkipLast(currentNode, acc) ==
  IF previousNode[currentNode] = Null THEN acc
  ELSE WalkBackSkipLast(previousNode[currentNode], <<currentNode>> \o acc)

\* getNodesInShortestPathOrder: follow previousNode from the finish node,
\* unshifting each node
RECURSIVE WalkBack(_, _)
WalkBack(currentNode, acc) ==
  IF currentNode = Null THEN acc
  ELSE WalkBack(previousNode[currentNode], <<currentNode>> \o acc)

getNodesInShortestPathOrder(finish) == WalkBack(finish, <<>>)

\* ------------------------------------------------------------------ Init
\* A clean grid (every node as createNode / initGenerator's cleanGrid leaves
\* it) handed to astarGenerator, the generator not yet resumed.
InitGrid(wallsAllowedOnEnds) ==
  /\ rows \in 1 .. MaxRows
  /\ cols \in 1 .. MaxCols
  /\ startNode \in Cells(rows, cols)
  /\ finishNode \in Cells(rows, cols)
  /\ startNode # finishNode
  /\ \E walls \in SUBSET Cells(rows, cols) :
       /\ Cardinality(walls) <= MaxWalls
       /\ wallsAllowedOnEnds \/ (startNode \notin walls /\ finishNode \notin walls)
       /\ isWall = [n \in Cells(rows, cols) |-> n \in walls]
  /\ distance = [n \in Cells(rows, cols) |-> createNode(n).distance]
  /\ gScore = [n \in Cells(rows, cols) |-> createNode(n).gScore]
  /\ hScore = [n \in Cells(rows, cols) |-> createNode(n).hScore]
  /\ fScore = [n \in Cells(rows, cols) |-> createNode(n).fScore]
  /\ isVisited = [n \in Cells(rows, cols) |-> createNode(n).isVisited]
  /\ previousNode = [n \in Cells(rows, cols) |-> createNode(n).previousNode]
  /\ openSet = <<>>
  /\ pc = "created"
  /\ closestNode = Null
  /\ neighbors = <<>>
  /\ nbrIdx = 0
  /\ step = NoStep
  /\ pathCalled = FALSE
  /\ path = <<>>
  /\ grid = LiveGrid
  /\ mouseIsPressed = FALSE
  /\ isRunning = TRUE
  /\ isFinished = FALSE
  /\ isPaused = FALSE
  /\ generatorRef = TRUE
  /\ intervalRef = NoTimer
  /\ playTimeout = NoTimer
  /\ pathOnLive = FALSE
  /\ timers = 0
  /\ halted = FALSE
  /\ display = <<>>
  /\ pathTimeouts = <<>>
  /\ resetTimeout = FALSE

\* the grids the driver can build: start and finish are never walls
Init == InitGrid(FALSE)

\* every grid the exported astarGenerator accepts
InitAnyGrid == InitGrid(TRUE)

\* --------------------------------------------------------------- actions
\* The generator returns: next() reports done
Return ==
  /\ pc' = "done"
  /\ step' = NoStep

\* the loop head without `closestNode.isVisited = true`
LoopHeadNoMark ==
  LET r == PopClosest(openSet)
  IN  /\ openSet' = r.open
      /\ closestNode' = r.node
      /\ IF r.exit = "visit"
           THEN /\ pc' = "yieldVisited"
                /\ step' = AlgoStep(r.node, "visited")
           ELSE /\ Return
      /\ UNCHANGED <<isVisited, distance, gScore, hScore, fScore, previousNode>>

\* Lines 21-36: the while loop from its test to `yield visited`, or to the
\* end of the generator
LoopHead ==
  LET r == PopClosest(openSet)
  IN  /\ openSet' = r.open
      /\ closestNode' = r.node
      /\ IF r.exit = "visit"
           THEN /\ isVisited' = [isVisited EXCEPT ![r.node] = TRUE]
                /\ pc' = "yieldVisited"
                /\ step' = AlgoStep(r.node, "visited")
           ELSE /\ Return
                /\ UNCHANGED isVisited
      /\ UNCHANGED <<distance, gScore, hScore, fScore, previousNode>>

\* Lines 45-57: the body of the for loop for a neighbour that is relaxed
Relax(closest, neighbor) ==
  LET tentativeGScore == Plus(gScore[closest], 1)
      h == heuristic(neighbor, finishNode)
  IN  /\ previousNode' = [previousNode EXCEPT ![neighbor] = closest]
      /\ gScore' = [gScore EXCEPT ![neighbor] = tentativeGScore]
      /\ hScore' = [hScore EXCEPT ![neighbor] = h]
      /\ fScore' = [fScore EXCEPT ![neighbor] = Plus(tentativeGScore, h)]
      /\ distance' = [distance EXCEPT ![neighbor] = tentativeGScore]
      /\ openSet' = IF includes(openSet, neighbor) THEN openSet
                    ELSE Append(openSet, neighbor)
      /\ pc' = "yieldOpen"
      /\ step' = AlgoStep(neighbor, "open")
      /\ UNCHANGED <<isVisited, closestNode>>

\* Lines 42-59: the for loop over nbrs from position i to the next
\* `yield open`; when the loop runs out, back to the head of the while loop
ForLoop(closest, nbrs, i) ==
  LET j == NextRelaxed(closest, nbrs, i)
  IN  /\ neighbors' = nbrs
      /\ IF j = 0
           THEN /\ LoopHead
                /\ nbrIdx' = Len(nbrs) + 1
           ELSE /\ Relax(closest, nbrs[j])
                /\ nbrIdx' = j + 1

\* Lines 11-19 on the generator's own variables
GenFirst ==
  /\ pc = "created"
  /\ distance' = [distance EXCEPT ![startNode] = 0]
  /\ gScore' = [gScore EXCEPT ![startNode] = 0]
  /\ hScore' = [hScore EXCEPT ![startNode] = heuristic(startNode, finishNode)]
  /\ fScore' = [fScore EXCEPT ![startNode] =
                  Plus(0, heuristic(startNode, finishNode))]
  /\ openSet' = <<startNode>>
  /\ pc' = "yieldStart"
  /\ step' = AlgoStep(startNode, "open")
  /\ UNCHANGED <<isVisited, previousNode, closestNode, neighbors, nbrIdx>>

\* Resumption at line 19 on the generator's own variables
GenAfterStart ==
  /\ pc = "yieldStart"
  /\ LoopHead
  /\ UNCHANGED <<neighbors, nbrIdx>>

\* Resumption at line 36 on the generator's own variables
GenAfterVisited ==
  /\ pc = "yieldVisited"
  /\ IF closestNode = finishNode
       THEN /\ Return
            /\ UNCHANGED <<nodeVars, openSet, closestNode, neighbors, nbrIdx>>
       ELSE ForLoop(closestNode, getUnvisitedNeighbors(closestNode), 1)

\* Resumption at line 57 on the generator's own variables
GenAfterOpen ==
  /\ pc = "yieldOpen"
  /\ ForLoop(closestNode, neighbors, nbrIdx)

\* next() on a generator that has returned: done again, nothing changes
GenAfterDone ==
  /\ pc = "done"
  /\ UNCHANGED <<nodeVars, genVars>>

\* generator.next() on the generator's own variables
GenNext ==
  \/ GenFirst
  \/ GenAfterStart
  \/ GenAfterVisited
  \/ GenAfterOpen
  \/ GenAfterDone

\* the first next() without `yield` at line 19: it runs on into the loop and
\* pops the start node
NextFirstNoYield ==
  /\ pc = "created"
  /\ ~isWall[startNode]
  /\ distance' = [distance EXCEPT ![startNode] = 0]
  /\ gScore' = [gScore EXCEPT ![startNode] = 0]
  /\ hScore' = [hScore EXCEPT ![startNode] = heuristic(startNode, finishNode)]
  /\ fScore' = [fScore EXCEPT ![startNode] =
                  Plus(0, heuristic(startNode, finishNode))]
  /\ openSet' = <<>>
  /\ closestNode' = startNode
  /\ isVisited' = [isVisited EXCEPT ![startNode] = TRUE]
  /\ pc' = "yieldVisited"
  /\ step' = AlgoStep(startNode, "visited")
  /\ UNCHANGED <<previousNode, neighbors, nbrIdx>>
  /\ UNCHANGED <<gridVars, pathCalled, path, driverVars>>

\* next() on a generator not yet started: lines 11-19
NextFirst ==
  /\ GenFirst
  /\ UNCHANGED <<gridVars, pathCalled, path, driverVars>>

\* next() on a generator suspended at line 19
NextAfterStart ==
  /\ GenAfterStart
  /\ UNCHANGED <<gridVars, pathCalled, path, driverVars>>

\* the resumption at line 36 without `if (closestNode === finishNode) return`
NextAfterVisitedNoGoalCheck ==
  /\ pc = "yieldVisited"
  /\ ForLoop(closestNode, getUnvisitedNeighbors(closestNode), 1)
  /\ UNCHANGED <<gridVars, pathCalled, path, driverVars>>

\* next() on a generator suspended at line 36
NextAfterVisited ==
  /\ GenAfterVisited
  /\ UNCHANGED <<gridVars, pathCalled, path, driverVars>>

\* next() on a generator suspended at line 57
NextAfterOpen ==
  /\ GenAfterOpen
  /\ UNCHANGED <<gridVars, pathCalled, path, driverVars>>

\* getNodesInShortestPathOrder(finishNode), called once the generator has
\* completed
ReconstructPath ==
  /\ pc = "done"
  /\ ~pathCalled
  /\ pathCalled' = TRUE
  /\ path' = getNodesInShortestPathOrder(finishNode)
  /\ UNCHANGED <<gridVars, nodeVars, genVars, driverVars>>

\* generator.next()
NextCall ==
  \/ NextFirst
  \/ NextAfterStart
  \/ NextAfterVisited
  \/ NextAfterOpen

Next ==
  \/ NextCall
  \/ ReconstructPath

Spec == Init /\ [][Next]_vars

SpecAnyGrid == InitAnyGrid /\ [][Next]_vars

\* ---------------------------------------------------------- the driver
\* The grid the generator works on, as NodeType objects
GenGrid ==
  [n \in Nodes |->
     [col |-> n[2], row |-> n[1],
      isStart |-> n = startNode, isFinish |-> n = finishNode,
      distance |-> distance[n], isVisited |-> isVisited[n],
      isWall |-> isWall[n], previousNode |-> previousNode[n],
      gScore |-> gScore[n], hScore |-> hScore[n], fScore |-> fScore[n]]]

\* the nodes of the grid a reference points to
Deref(ref) == IF ref.live THEN GenGrid ELSE ref.nodes

\* A reference held while generatorRef moves to another generator (or to
\* null) keeps pointing to the grid object it pointed to, with the nodes as
\* the old generator left them.
Detach(ref) == IF ref.live THEN GridValue(GenGrid) ELSE ref
DetachTimer(t) == [t EXCEPT !.grid = Detach(@)]

\* getNewGridWithWallToggled without `if (node.isStart || node.isFinish)`
getNewGridWithWallToggledAnyNode(g, n) ==
  [g EXCEPT ![n].isWall = ~@]

\* getNewGridWithWallToggled: the node keeps every other field
getNewGridWithWallToggled(g, n) ==
  IF g[n].isStart \/ g[n].isFinish THEN g
  ELSE [g EXCEPT ![n].isWall = ~@]

\* cleanGrid that leaves isVisited as it was
cleanGridKeepVisited(g) ==
  [n \in DOMAIN g |->
     [g[n] EXCEPT !.distance = Infinity,
                  !.previousNode = Null,
                  !.fScore = Infinity, !.gScore = Infinity,
                  !.hScore = Infinity]]

\* initGenerator's cleanGrid (lines 170-184)
cleanGrid(g) ==
  [n \in DOMAIN g |->
     [g[n] EXCEPT !.distance = Infinity, !.isVisited = FALSE,
                  !.previousNode = Null,
                  !.fScore = Infinity, !.gScore = Infinity,
                  !.hScore = Infinity]]

\* getNodesInShortestPathOrder on the nodes of a grid g
RECURSIVE WalkBackIn(_, _, _)
WalkBackIn(g, currentNode, acc) ==
  IF currentNode = Null THEN acc
  ELSE WalkBackIn(g, g[currentNode].previousNode, <<currentNode>> \o acc)

\* The node variables become the nodes of g and generatorRef's generator is
\* at pcv: "none" (no generator), "created" (astarGenerator(...) returned) or
\* "yieldStart" (created and resumed once, astar.ts lines 11-19).
EngineBecomes(g, pcv) ==
  LET h == heuristic(StartPos, FinishPos)
      started == pcv = "yieldStart"
      Score(f, atStart) ==
        IF started THEN [f EXCEPT ![StartPos] = atStart] ELSE f
  IN  /\ rows' = GridRows
      /\ cols' = GridCols
      /\ startNode' = StartPos
      /\ finishNode' = FinishPos
      /\ isWall' = [n \in DOMAIN g |-> g[n].isWall]
      /\ distance' = Score([n \in DOMAIN g |-> g[n].distance], 0)
      /\ gScore' = Score([n \in DOMAIN g |-> g[n].gScore], 0)
      /\ hScore' = Score([n \in DOMAIN g |-> g[n].hScore], h)
      /\ fScore' = Score([n \in DOMAIN g |-> g[n].fScore], Plus(0, h))
      /\ isVisited' = [n \in DOMAIN g |-> g[n].isVisited]
      /\ previousNode' = [n \in DOMAIN g |-> g[n].previousNode]
      /\ openSet' = IF started THEN <<StartPos>> ELSE <<>>
      /\ pc' = pcv
      /\ closestNode' = Null
      /\ neighbors' = <<>>
      /\ nbrIdx' = 0
      /\ step' = IF started THEN AlgoStep(StartPos, "open") ELSE NoStep

\* initGenerator in a closure whose `grid` is src; resumed says that the
\* handler goes on to call performStep, which resumes the new generator.
\* One path animation is modelled at a time: a generator is created when
\* the timeouts of the previous run's animatePath have run.
initGenerator(src, resumed) ==
  /\ pathTimeouts = <<>>
  /\ EngineBecomes(cleanGrid(Deref(src)),
                   IF resumed THEN "yieldStart" ELSE "created")
  /\ grid' = LiveGrid
  /\ generatorRef' = TRUE
  /\ pathCalled' = FALSE
  /\ path' = <<>>
  /\ pathOnLive' = FALSE
  /\ display' =
       LET cleared == resetDOMForRun(Deref(src))
           h == heuristic(StartPos, FinishPos)
           stepped == IF resumed
                        THEN updateNodeDOM(cleared, StartPos, "open",
                               generateNodeContent(0, h, Plus(0, h)))
                        ELSE cleared
       IN  Render(Deref(grid), cleanGrid(Deref(src)), stepped)
  /\ UNCHANGED <<pathTimeouts, resetTimeout>>

\* stopLoop
stopLoop ==
  /\ intervalRef' = NoTimer
  /\ timers' = IF intervalRef.set THEN timers - 1 ELSE timers

\* startLoop in a closure whose `grid` is src
startLoop(src) ==
  /\ intervalRef' = IF intervalRef.set THEN DetachTimer(intervalRef)
                    ELSE Timer(src)
  /\ timers' = IF intervalRef.set THEN timers ELSE timers + 1

\* setGrid(getNewGridWithWallToggled(grid, row, col)).  grid.slice() copies
\* the array of rows only, so the new node is also stored in the row of the
\* old grid: toggling the grid of the live generator changes its walls.
ToggleWall(n) ==
  IF grid.live
    THEN /\ isWall' = [m \in Nodes |->
                         getNewGridWithWallToggled(GenGrid, n)[m].isWall]
         /\ display' = Render(GenGrid, getNewGridWithWallToggled(GenGrid, n),
                              display)
         /\ UNCHANGED grid
    ELSE /\ grid' = GridValue(getNewGridWithWallToggled(grid.nodes, n))
         /\ display' = Render(grid.nodes,
                              getNewGridWithWallToggled(grid.nodes, n),
                              display)
         /\ UNCHANGED isWall

\* handleMouseDown without its first line (the lock)
HandleMouseDownUnlocked(n) ==
  /\ ToggleWall(n)
  /\ mouseIsPressed' = TRUE
  /\ UNCHANGED <<rows, cols, startNode, finishNode, nodeVars, genVars,
                 pathCalled, path, flagVars, generatorRef, intervalRef, timers,
                 playTimeout, pathOnLive, halted, pathTimeouts, resetTimeout>>

HandleMouseDown(n) ==
  /\ IF isRunning \/ isFinished \/ isPaused
       THEN UNCHANGED <<grid, isWall, mouseIsPressed, display>>
       ELSE /\ ToggleWall(n)
            /\ mouseIsPressed' = TRUE
  /\ UNCHANGED <<rows, cols, startNode, finishNode, nodeVars, genVars,
                 pathCalled, path, flagVars, generatorRef, intervalRef, timers,
                 playTimeout, pathOnLive, halted, pathTimeouts, resetTimeout>>

HandleMouseEnter(n) ==
  /\ IF ~mouseIsPressed \/ isRunning \/ isFinished \/ isPaused
       THEN UNCHANGED <<grid, isWall, display>>
       ELSE ToggleWall(n)
  /\ UNCHANGED <<rows, cols, startNode, finishNode, nodeVars, genVars,
                 pathCalled, path, mouseIsPressed, flagVars, generatorRef,
                 intervalRef, timers, playTimeout, pathOnLive, halted,
                 pathTimeouts, resetTimeout>>

\* handleMouseUp, also the grid's onMouseLeave
HandleMouseUp ==
  /\ mouseIsPressed' = FALSE
  /\ UNCHANGED <<gridVars, nodeVars, genVars, pathCalled, path, grid,
                 flagVars, generatorRef, intervalRef, timers, playTimeout,
                 pathOnLive, halted, domVars>>

\* The part of performStep after `if (!generatorRef.current) return`, in a
\* closure whose `grid` is cap: next(), and on done the path from the finish
\* node of cap, handed to animatePath; otherwise updateNodeDOM for the node
\* of the step.  stopLoop and the three flags are left to the callers.
\* getNodesInShortestPathOrder reads the nodes as next() left them.
ResumeGenerator(cap) ==
  /\ GenNext
  /\ UNCHANGED gridVars
  /\ IF pc' = "done"
       THEN /\ pathCalled' = TRUE
            /\ path' = WalkBackIn(IF cap.live THEN GenGrid' ELSE cap.nodes,
                                   FinishPos, <<>>)
            /\ pathOnLive' = cap.live
            /\ pathTimeouts' =
                 LET g == IF cap.live THEN GenGrid' ELSE cap.nodes
                 IN  [i \in 1 .. Len(path') |->
                        [node |-> path'[i],
                         content |-> generateNodeContent(g[path'[i]].gScore,
                                                         g[path'[i]].hScore,
                                                         g[path'[i]].fScore)]]
            /\ UNCHANGED display
       ELSE /\ display' =
                 updateNodeDOM(display, step'.nodes[1], step'.type,
                               generateNodeContent(gScore'[step'.nodes[1]],
                                                   hScore'[step'.nodes[1]],
                                                   fScore'[step'.nodes[1]]))
            /\ UNCHANGED <<pathCalled, path, pathOnLive, pathTimeouts>>
  /\ UNCHANGED resetTimeout

\* handleReset
HandleReset ==
  /\ stopLoop
  /\ generatorRef' = FALSE
  /\ isRunning' = FALSE
  /\ isPaused' = FALSE
  /\ isFinished' = FALSE
  /\ EngineBecomes(getInitialGrid, "none")
  /\ grid' = GridValue(getInitialGrid)
  /\ playTimeout' = DetachTimer(playTimeout)
  /\ pathCalled' = FALSE
  /\ path' = <<>>
  /\ pathOnLive' = FALSE
  /\ display' = Render(Deref(grid), getInitialGrid, display)
  /\ resetTimeout' = TRUE
  /\ UNCHANGED pathTimeouts
  /\ halted' = TRUE
  /\ UNCHANGED mouseIsPressed

\* handlePlay; the Play button is rendered when !isRunning || isPaused.
\* One pending start (the setTimeout of the isFinished branch) is modelled
\* at a time.
HandlePlay ==
  /\ ~isRunning \/ isPaused
  /\ IF isFinished
       THEN /\ ~playTimeout.set
            /\ stopLoop
            /\ generatorRef' = FALSE
            /\ isRunning' = FALSE
            /\ isPaused' = FALSE
            /\ isFinished' = FALSE
            /\ EngineBecomes(getInitialGrid, "none")
            /\ grid' = GridValue(getInitialGrid)
            /\ playTimeout' = Timer(Detach(grid))
            /\ pathCalled' = FALSE
            /\ path' = <<>>
            /\ pathOnLive' = FALSE
            /\ display' = Render(Deref(grid), getInitialGrid, display)
            /\ resetTimeout' = TRUE
            /\ UNCHANGED pathTimeouts
       ELSE IF ~isRunning /\ ~isPaused
         THEN /\ initGenerator(grid, FALSE)
              /\ isRunning' = TRUE
              /\ startLoop(Detach(grid))
              /\ playTimeout' = DetachTimer(playTimeout)
              /\ UNCHANGED <<isFinished, isPaused>>
         ELSE /\ isPaused' = FALSE
              /\ isRunning' = TRUE
              /\ intervalRef' = IF intervalRef.set THEN intervalRef
                                ELSE Timer(grid)
              /\ timers' = IF intervalRef.set THEN timers ELSE timers + 1
              /\ UNCHANGED <<gridVars, nodeVars, genVars, pathCalled, path,
                             grid, isFinished, generatorRef, playTimeout,
                             pathOnLive, domVars>>
  /\ halted' = FALSE
  /\ UNCHANGED mouseIsPressed

\* The callback of handlePlay's setTimeout, in the closure of the render in
\* which Play was pressed.  handlePlay sets it after handleReset has set the
\* timeout of the display clear, with the same delay: it runs after it.
PlayTimeoutFire ==
  /\ playTimeout.set
  /\ ~resetTimeout
  /\ initGenerator(playTimeout.grid, FALSE)
  /\ isRunning' = TRUE
  /\ startLoop(Detach(playTimeout.grid))
  /\ playTimeout' = NoTimer
  /\ UNCHANGED <<mouseIsPressed, isFinished, isPaused, halted>>

\* handlePause; the Pause button is rendered when isRunning && !isPaused
HandlePause ==
  /\ isRunning /\ ~isPaused
  /\ isPaused' = TRUE
  /\ isRunning' = FALSE
  /\ stopLoop
  /\ halted' = TRUE
  /\ UNCHANGED <<gridVars, nodeVars, genVars, pathCalled, path, grid,
                 mouseIsPressed, isFinished, generatorRef, playTimeout,
                 pathOnLive, domVars>>

\* handleStep; the Step button is disabled when isRunning && !isPaused
HandleStep ==
  /\ ~(isRunning /\ ~isPaused)
  /\ IF isFinished
       THEN UNCHANGED <<gridVars, nodeVars, genVars, pathCalled, path, grid,
                        flagVars, generatorRef, intervalRef, timers,
                        playTimeout, pathOnLive, domVars>>
       ELSE /\ IF ~isRunning /\ ~isPaused
                 THEN /\ initGenerator(grid, TRUE)
                      /\ playTimeout' = DetachTimer(playTimeout)
                      /\ UNCHANGED isFinished
                 ELSE /\ IF generatorRef
                           THEN /\ ResumeGenerator(grid)
                                /\ isFinished' = (pc' = "done")
                           ELSE UNCHANGED <<gridVars, nodeVars, genVars,
                                            pathCalled, path, pathOnLive,
                                            isFinished, domVars>>
                      /\ UNCHANGED <<grid, generatorRef, playTimeout>>
            /\ isPaused' = TRUE
            /\ stopLoop
            /\ isRunning' = FALSE
  /\ halted' = FALSE
  /\ UNCHANGED mouseIsPressed

\* the setInterval callback: performStep in the closure of the render in
\* which startLoop was called
IntervalTick ==
  /\ timers > 0
  /\ IF generatorRef
       THEN /\ ResumeGenerator(intervalRef.grid)
            /\ IF pc' = "done"
                 THEN /\ stopLoop
                      /\ isFinished' = TRUE
                      /\ isRunning' = FALSE
                      /\ isPaused' = FALSE
                 ELSE UNCHANGED <<intervalRef, timers, flagVars>>
       ELSE UNCHANGED <<gridVars, nodeVars, genVars, pathCalled, path,
                        pathOnLive, intervalRef, timers, flagVars, domVars>>
  /\ UNCHANGED <<grid, mouseIsPressed, generatorRef, playTimeout, halted>>

\* the callback of handleReset's setTimeout (lines 374-395)
ResetTimeoutFire ==
  /\ resetTimeout
  /\ resetTimeout' = FALSE
  /\ display' = ClearedDisplay
  /\ UNCHANGED <<gridVars, nodeVars, genVars, pathCalled, path, grid,
                 mouseIsPressed, flagVars, generatorRef, intervalRef, timers,
                 playTimeout, pathOnLive, halted, pathTimeouts>>

\* the next callback of animatePath's setTimeouts: updateNodeDOM(node, 'path')
PathTimeoutFire ==
  /\ pathTimeouts # <<>>
  /\ display' = updateNodeDOM(display, Head(pathTimeouts).node, "path",
                              Head(pathTimeouts).content)
  /\ pathTimeouts' = Tail(pathTimeouts)
  /\ UNCHANGED <<gridVars, nodeVars, genVars, pathCalled, path, grid,
                 mouseIsPressed, flagVars, generatorRef, intervalRef, timers,
                 playTimeout, pathOnLive, halted, resetTimeout>>

\* The component after its mount effect: setGrid(getInitialGrid())
DriverInit ==
  /\ rows = GridRows
  /\ cols = GridCols
  /\ startNode = StartPos
  /\ finishNode = FinishPos
  /\ isWall = [n \in Cells(GridRows, GridCols) |-> getInitialGrid[n].isWall]
  /\ distance = [n \in Cells(GridRows, GridCols) |-> getInitialGrid[n].distance]
  /\ gScore = [n \in Cells(GridRows, GridCols) |-> getInitialGrid[n].gScore]
  /\ hScore = [n \in Cells(GridRows, GridCols) |-> getInitialGrid[n].hScore]
  /\ fScore = [n \in Cells(GridRows, GridCols) |-> getInitialGrid[n].fScore]
  /\ isVisited = [n \in Cells(GridRows, GridCols) |-> getInitialGrid[n].isVisited]
  /\ previousNode =
       [n \in Cells(GridRows, GridCols) |-> getInitialGrid[n].previousNode]
  /\ openSet = <<>>
  /\ pc = "none"
  /\ closestNode = Null
  /\ neighbors = <<>>
  /\ nbrIdx = 0
  /\ step = NoStep
  /\ pathCalled = FALSE
  /\ path = <<>>
  /\ grid = GridValue(getInitialGrid)
  /\ mouseIsPressed = FALSE
  /\ isRunning = FALSE
  /\ isFinished = FALSE
  /\ isPaused = FALSE
  /\ generatorRef = FALSE
  /\ intervalRef = NoTimer
  /\ playTimeout = NoTimer
  /\ pathOnLive = FALSE
  /\ timers = 0
  /\ halted = FALSE
  /\ display = MountedDisplay
  /\ pathTimeouts = <<>>
  /\ resetTimeout = FALSE

DriverNext ==
  \/ \E n \in Cells(GridRows, GridCols) : HandleMouseDown(n)
  \/ \E n \in Cells(GridRows, GridCols) : HandleMouseEnter(n)
  \/ HandleMouseUp
  \/ HandlePlay
  \/ PlayTimeoutFire
  \/ HandlePause
  \/ HandleStep
  \/ HandleReset
  \/ IntervalTick
  \/ ResetTimeoutFire
  \/ PathTimeoutFire

DriverSpec == DriverInit /\ [][DriverNext]_vars

\* ------------------------------------------- the reset of initGenerator
\* The search state a node of the grid handed to initGenerator can carry:
\* as created, relaxed but not visited, visited
SearchStates == {"fresh", "open", "visited"}

NodeIn(n, wall, state) ==
  IF state = "fresh" THEN [createNode(n) EXCEPT !.isWall = wall]
  ELSE [createNode(n) EXCEPT
          !.isWall = wall,
          !.isVisited = (state = "visited"),
          !.distance = heuristic(StartPos, n),
          !.gScore = heuristic(StartPos, n),
          !.hScore = heuristic(n, FinishPos),
          !.fScore = heuristic(StartPos, n) + heuristic(n, FinishPos),
          !.previousNode = IF n = StartPos THEN Null ELSE StartPos]

\* grids with walls off the start and finish nodes and any search state
UsedGrids ==
  {[n \in Cells(GridRows, GridCols) |-> NodeIn(n, n \in walls, st[n])] :
     walls \in SUBSET (Cells(GridRows, GridCols) \ {StartPos, FinishPos}),
     st \in [Cells(GridRows, GridCols) -> SearchStates]}

\* Play was pressed in a render whose grid carried a search state: the reset
\* ran and the start of the new run is pending
ResetInit ==
  /\ rows = GridRows
  /\ cols = GridCols
  /\ startNode = StartPos
  /\ finishNode = FinishPos
  /\ isWall = [n \in Cells(GridRows, GridCols) |-> getInitialGrid[n].isWall]
  /\ distance = [n \in Cells(GridRows, GridCols) |-> getInitialGrid[n].distance]
  /\ gScore = [n \in Cells(GridRows, GridCols) |-> getInitialGrid[n].gScore]
  /\ hScore = [n \in Cells(GridRows, GridCols) |-> getInitialGrid[n].hScore]
  /\ fScore = [n \in Cells(GridRows, GridCols) |-> getInitialGrid[n].fScore]
  /\ isVisited = [n \in Cells(GridRows, GridCols) |-> getInitialGrid[n].isVisited]
  /\ previousNode =
       [n \in Cells(GridRows, GridCols) |-> getInitialGrid[n].previousNode]
  /\ openSet = <<>>
  /\ pc = "none"
  /\ closestNode = Null
  /\ neighbors = <<>>
  /\ nbrIdx = 0
  /\ step = NoStep
  /\ pathCalled = FALSE
  /\ path = <<>>
  /\ grid = GridValue(getInitialGrid)
  /\ mouseIsPressed = FALSE
  /\ isRunning = FALSE
  /\ isFinished = FALSE
  /\ isPaused = FALSE
  /\ generatorRef = FALSE
  /\ intervalRef = NoTimer
  /\ \E g \in UsedGrids : playTimeout = Timer(GridValue(g))
  /\ pathOnLive = FALSE
  /\ timers = 0
  /\ halted = FALSE
  /\ display = MountedDisplay
  /\ pathTimeouts = <<>>
  /\ resetTimeout = FALSE

\* the two callers of initGenerator that leave the new generator unresumed
ResetNext ==
  \/ HandlePlay
  \/ PlayTimeoutFire

SpecReset == ResetInit /\ [][ResetNext]_vars

\* ------------------------------------------------- reference definitions
\* The true shortest 4-connected wall-avoiding distance, by breadth-first
\* search over the non-wall nodes; Infinity when there is no route.
Adjacent(a, b) == Abs(a[1] - b[1]) + Abs(a[2] - b[2]) = 1

RECURSIVE BfsDistance(_, _, _, _)
BfsDistance(frontier, seen, goal, d) ==
  IF goal \in frontier THEN d
  ELSE IF frontier = {} THEN Infinity
  ELSE LET next == {n \in Nodes : /\ ~isWall[n]
                                  /\ n \notin seen
                                  /\ \E m \in frontier : Adjacent(m, n)}
       IN  BfsDistance(next, seen \cup next, goal, d + 1)

ShortestDistance ==
  IF isWall[startNode] \/ isWall[finishNode] THEN Infinity
  ELSE BfsDistance({startNode}, {startNode}, finishNode, 0)

GoalReachable == ShortestDistance # Infinity
NoWalls == \A n \in Nodes : ~isWall[n]
Manhattan == Abs(startNode[1] - finishNode[1]) + Abs(startNode[2] - finishNode[2])

\* ----------------------------------------------------------------- claims
\* C1: whenever the goal is reachable from the start through non-wall
\* nodes, a completed run has visited the goal, the goal's gScore is the
\* true shortest distance and the reconstructed path has that many nodes
\* plus one.
C1_Optimality ==
  (pc = "done" /\ GoalReachable) =>
     /\ isVisited[finishNode]
     /\ gScore[finishNode] = ShortestDistance
     /\ Len(getNodesInShortestPathOrder(finishNode)) = ShortestDistance + 1

\* a completed run on a grid whose walls force a detour
C1_Witness ==
  /\ pc = "done"
  /\ GoalReachable
  /\ ShortestDistance > Manhattan
  /\ Len(getNodesInShortestPathOrder(finishNode)) = ShortestDistance + 1

\* C2: on a grid without walls a completed run has visited the goal and the
\* reconstructed path has Manhattan distance plus one nodes; on a single
\* row from column 0 to the last column the path is the row in column order.
C2_OpenGrid ==
  (pc = "done" /\ NoWalls) =>
     /\ isVisited[finishNode]
     /\ Len(getNodesInShortestPathOrder(finishNode)) = Manhattan + 1
     /\ (rows = 1 /\ startNode = <<0, 0>> /\ finishNode = <<0, cols - 1>>) =>
          getNodesInShortestPathOrder(finishNode) =
            [i \in 1 .. cols |-> <<0, i - 1>>]

\* a completed run along a whole single row of at least three nodes
C2_Witness ==
  /\ pc = "done"
  /\ NoWalls
  /\ rows = 1 /\ cols >= 3
  /\ startNode = <<0, 0>> /\ finishNode = <<0, cols - 1>>
  /\ Len(getNodesInShortestPathOrder(finishNode)) = cols


\* C3: on a grid whose walls block every route from start to goal the goal
\* is never marked visited and never named by a VISITED step, and a
\* completed run has ended in failure with the open set empty.
C3_BlockedFails ==
  ~GoalReachable =>
     /\ ~isVisited[finishNode]
     /\ ~(step.type = "visited" /\ step.nodes = <<finishNode>>)
     /\ pc = "done" => openSet = <<>>

\* a completed run on a blocked grid in which some node was expanded beyond
\* the start
C3_Witness ==
  /\ pc = "done"
  /\ ~GoalReachable
  /\ ~isVisited[finishNode]
  /\ openSet = <<>>
  /\ \E n \in Nodes : n # startNode /\ isVisited[n]

\* C4: a wall node keeps the scores of a fresh node and no previousNode, is
\* never in the open set and is never named by an OPEN step.
C4_WallUntouched ==
  \A n \in Nodes : isWall[n] =>
     /\ gScore[n] = Infinity /\ hScore[n] = Infinity /\ fScore[n] = Infinity
     /\ previousNode[n] = Null
     /\ ~includes(openSet, n)
     /\ ~(step.type = "open" /\ step.nodes = <<n>>)

\* C5: a VISITED step names a node that is not a wall and has a finite
\* gScore; no wall is ever visited; the infinite-distance guard of the loop
\* head never fires.
C5_VisitedFinite ==
  /\ step.type = "visited" =>
       /\ ~isWall[step.nodes[1]]
       /\ gScore[step.nodes[1]] # Infinity
       /\ isVisited[step.nodes[1]]
  /\ \A n \in Nodes : isWall[n] => ~isVisited[n]
  /\ PopClosest(openSet).exit # "infinite"

\* a node is marked visited while a wall sits in the open set
C5_Witness ==
  /\ step.type = "visited"
  /\ \E i \in 1 .. Len(openSet) : isWall[openSet[i]]

\* C6: when the start or the goal node is a wall the engine refuses to run:
\* no step is returned and no node's search state is changed.
C6_RefusesWallEnds ==
  (isWall[startNode] \/ isWall[finishNode]) =>
     /\ step = NoStep
     /\ openSet = <<>>
     /\ \A n \in Nodes :
          /\ gScore[n] = Infinity /\ hScore[n] = Infinity
          /\ fScore[n] = Infinity /\ distance[n] = Infinity
          /\ ~isVisited[n]
          /\ previousNode[n] = Null

\* C7: getNodesInShortestPathOrder on a goal that was never visited does not
\* return an ordinary node sequence.
IsNodeSequence(p) == \A i \in 1 .. Len(p) : p[i] \in Nodes

C7_UnvisitedGoalSignalled ==
  (pathCalled /\ ~isVisited[finishNode]) => ~IsNodeSequence(path)

\* C8: after a successful run the reconstructed path starts at the start
\* node, ends at the goal, moves between axis-aligned neighbours, holds no
\* wall, repeats no node and holds only visited nodes.
C8_PathWellFormed ==
  (pathCalled /\ isVisited[finishNode]) =>
     /\ Len(path) >= 1
     /\ path[1] = startNode
     /\ path[Len(path)] = finishNode
     /\ \A i \in 1 .. Len(path) - 1 : Adjacent(path[i], path[i + 1])
     /\ \A i \in 1 .. Len(path) : ~isWall[path[i]] /\ isVisited[path[i]]
     /\ \A i, j \in 1 .. Len(path) : i # j => path[i] # path[j]

\* a path of at least four nodes reconstructed on a grid with a wall
C8_Witness ==
  /\ pathCalled
  /\ isVisited[finishNode]
  /\ Len(path) >= 4
  /\ \E n \in Nodes : isWall[n]

\* C9: a finite gScore never increases, a write to a node whose gScore is
\* finite stores a strictly smaller value, and a visited node's gScore never
\* changes.
C9_Monotone ==
  [][\A n \in Nodes :
       /\ gScore[n] # Infinity => gScore'[n] <= gScore[n]
       /\ (gScore[n] # Infinity /\ step'.type = "open" /\ step'.nodes = <<n>>)
            => gScore'[n] < gScore[n]
       /\ isVisited[n] => gScore'[n] = gScore[n]]_vars

\* the relaxation test has just turned down an unvisited neighbour whose
\* gScore is already finite
C9_Witness ==
  /\ pc \in {"yieldVisited", "yieldOpen"}
  /\ isVisited[closestNode]
  /\ \E i \in 1 .. Len(neighbors) :
       /\ i < nbrIdx
       /\ gScore[neighbors[i]] # Infinity
       /\ gScore[neighbors[i]] <= gScore[closestNode]
       /\ ~isVisited[neighbors[i]]

\* C10: whenever the generator is suspended, every node has
\* fScore = gScore + hScore if its gScore is finite and fScore = Infinity
\* otherwise, and a node with finite gScore has its Manhattan distance to
\* the goal as hScore.
C10_ScoreRelation ==
  \A n \in Nodes :
     IF gScore[n] # Infinity
       THEN /\ fScore[n] = gScore[n] + hScore[n]
            /\ hScore[n] = Abs(n[1] - finishNode[1]) + Abs(n[2] - finishNode[2])
       ELSE fScore[n] = Infinity

\* the generator is suspended after relaxing a node other than the start
C10_Witness ==
  /\ pc = "yieldOpen"
  /\ step.type = "open"
  /\ step.nodes[1] # startNode
  /\ gScore[step.nodes[1]] >= 2
  /\ fScore[step.nodes[1]] # Infinity

\* C11: the reset of initGenerator yields a grid of the same dimensions in
\* which every node keeps row, col, isStart, isFinish and isWall and has
\* gScore, hScore, fScore and distance at Infinity, isVisited false and no
\* previousNode, whatever search state the input carried; resetting the
\* result again gives the same grid.
C11_ResetContract ==
  [][pc' = "created" =>
       LET in == Deref(IF playTimeout.set /\ ~playTimeout'.set
                         THEN playTimeout.grid ELSE grid)
           out == GenGrid'
       IN  /\ grid' = LiveGrid
           /\ DOMAIN out = DOMAIN in
           /\ rows' = GridRows /\ cols' = GridCols
           /\ \A n \in DOMAIN in :
                /\ out[n].row = in[n].row
                /\ out[n].col = in[n].col
                /\ out[n].isStart = in[n].isStart
                /\ out[n].isFinish = in[n].isFinish
                /\ out[n].isWall = in[n].isWall
                /\ out[n].gScore = Infinity
                /\ out[n].hScore = Infinity
                /\ out[n].fScore = Infinity
                /\ out[n].distance = Infinity
                /\ ~out[n].isVisited
                /\ out[n].previousNode = Null
           /\ cleanGrid(out) = out
           /\ cleanGrid(cleanGrid(in)) = cleanGrid(in)]_vars

\* the reset has run on a grid with a wall, a visited node and a relaxed
\* node, which the interval's closure still holds
C11_Witness ==
  /\ pc = "created"
  /\ intervalRef.set
  /\ ~intervalRef.grid.live
  /\ \E a, b, c \in Nodes :
       /\ intervalRef.grid.nodes[a].isVisited
       /\ intervalRef.grid.nodes[a].previousNode # Null
       /\ ~intervalRef.grid.nodes[b].isVisited
       /\ intervalRef.grid.nodes[b].gScore # Infinity
       /\ intervalRef.grid.nodes[c].isWall
       /\ isWall[c]

\* the nodes of grid g flagged isStart / isFinish
StartsOf(g) == {n \in DOMAIN g : g[n].isStart}
FinishesOf(g) == {n \in DOMAIN g : g[n].isFinish}

EndsWellFormed(g) ==
  /\ Cardinality(StartsOf(g)) = 1
  /\ Cardinality(FinishesOf(g)) = 1
  /\ StartsOf(g) \cap FinishesOf(g) = {}
  /\ \A n \in StartsOf(g) \cup FinishesOf(g) : ~g[n].isWall

\* C12: after any sequence of grid creation, wall toggles on any cell, run
\* resets and full resets, the grid has exactly one isStart node and exactly
\* one isFinish node, and neither is a wall.
C12_OneStartOneFinish ==
  /\ EndsWellFormed(Deref(grid))
  /\ generatorRef => EndsWellFormed(GenGrid)
  /\ intervalRef.set => EndsWellFormed(Deref(intervalRef.grid))
  /\ playTimeout.set => EndsWellFormed(Deref(playTimeout.grid))

\* walls were toggled with the mouse, which is still pressed, and the grid
\* went through the reset of a run
C12_Witness ==
  /\ mouseIsPressed
  /\ generatorRef
  /\ grid.live
  /\ pc = "created"
  /\ \E n \in Nodes : isWall[n]

\* C13: whenever a node is removed from the open set, no node left in the
\* open set has a smaller fScore, or an equal fScore and a smaller hScore.
SeqSet(s) == {s[i] : i \in 1 .. Len(s)}

Better(m, r) ==
  \/ fScore[m] < fScore[r]
  \/ fScore[m] = fScore[r] /\ hScore[m] < hScore[r]

C13_FrontierOrder ==
  [][\A r \in SeqSet(openSet) \ SeqSet(openSet') :
       /\ \A m \in SeqSet(openSet') : ~Better(m, r)
       /\ (pc' = "yieldVisited" /\ r # closestNode') => ~Better(closestNode', r)
    ]_vars

\* a node was popped while a node of equal fScore and larger hScore stayed in
\* the open set
C13_Witness ==
  /\ pc = "yieldVisited"
  /\ \E m \in SeqSet(openSet) :
       /\ fScore[m] = fScore[closestNode]
       /\ hScore[m] > hScore[closestNode]

\* C14: the first next() returns an OPEN step for the start node; a next()
\* that returns a step changes the search state of exactly the node the step
\* names; a next() that signals completion changes no node; a wall popped
\* from the open set is not named by the step returned.
Changed ==
  {n \in Nodes : \/ gScore'[n] # gScore[n]
                 \/ hScore'[n] # hScore[n]
                 \/ fScore'[n] # fScore[n]
                 \/ distance'[n] # distance[n]
                 \/ isVisited'[n] # isVisited[n]
                 \/ previousNode'[n] # previousNode[n]}

C14_OneUnitPerCall ==
  [][pc # "done" =>
       /\ pc = "created" => step' = AlgoStep(startNode, "open")
       /\ pc' # "done" => /\ step'.type \in {"open", "visited"}
                          /\ Changed = {step'.nodes[1]}
       /\ pc' = "done" => step' = NoStep /\ Changed = {}
       /\ \A w \in SeqSet(openSet) \ SeqSet(openSet') :
            isWall[w] => step'.nodes # <<w>>
    ]_vars

\* a next() call has discarded a wall from the open set and returned a
\* VISITED step for another node
C14_Witness ==
  /\ pc = "yieldVisited"
  /\ \E w \in Nodes : /\ isWall[w]
                      /\ gScore[w] # Infinity
                      /\ w \notin SeqSet(openSet)
                      /\ fScore[w] <= fScore[closestNode]

\* C15: once the goal is marked visited the next next() signals completion
\* and no node's search state changes any more, whatever the open set holds.
C15_GoalEndsRun ==
  [][isVisited[finishNode] =>
       /\ pc' = "done"
       /\ step' = NoStep
       /\ nodeVars' = nodeVars
    ]_vars

\* the run completed on the goal with the open set non-empty and a neighbour
\* of the goal never relaxed
C15_Witness ==
  /\ pc = "done"
  /\ isVisited[finishNode]
  /\ openSet # <<>>
  /\ \E n \in Nodes : Adjacent(n, finishNode) /\ gScore[n] = Infinity

\* C16: a node's previousNode is a visited, non-wall, axis-aligned neighbour
\* whose gScore is one less than the node's; the links therefore lead to the
\* start node, the only node with a finite gScore and no previousNode.
LinksDescend ==
  \A n \in Nodes : previousNode[n] # Null =>
     /\ previousNode[n] \in Nodes
     /\ isVisited[previousNode[n]]
     /\ ~isWall[previousNode[n]]
     /\ Adjacent(previousNode[n], n)
     /\ gScore[n] # Infinity
     /\ gScore[previousNode[n]] = gScore[n] - 1

C16_PreviousLinks ==
  /\ LinksDescend
  /\ \A n \in Nodes :
       (gScore[n] # Infinity /\ previousNode[n] = Null) <=>
          (n = startNode /\ pc # "created")
  /\ LinksDescend =>
       \A n \in Nodes : previousNode[n] # Null =>
          Head(getNodesInShortestPathOrder(n)) = startNode

\* a node two links away from the start node
C16_Witness ==
  \E n \in Nodes :
     /\ previousNode[n] # Null
     /\ previousNode[previousNode[n]] # Null
     /\ previousNode[previousNode[previousNode[n]]] = Null

\* C17: every next() call before completion strictly lowers a measure that
\* is never negative, so completion is reached after finitely many calls; a
\* node named by a VISITED step was not visited before; the open set never
\* holds a node twice and never holds a visited node.
Capped(g) == IF g = Infinity THEN Cardinality(Nodes) + 1 ELSE g

RECURSIVE SumCapped(_)
SumCapped(S) ==
  IF S = {} THEN 0
  ELSE LET n == CHOOSE x \in S : TRUE
       IN  Capped(gScore[n]) + SumCapped(S \ {n})

RECURSIVE SumCappedNext(_)
SumCappedNext(S) ==
  IF S = {} THEN 0
  ELSE LET n == CHOOSE x \in S : TRUE
       IN  Capped(gScore'[n]) + SumCappedNext(S \ {n})

Measure ==
  (IF pc = "done" THEN 0 ELSE 1) + SumCapped(Nodes)
    + Cardinality({n \in Nodes : ~isVisited[n]})

MeasureNext ==
  (IF pc' = "done" THEN 0 ELSE 1) + SumCappedNext(Nodes)
    + Cardinality({n \in Nodes : ~isVisited'[n]})

C17_Terminates ==
  [][/\ pc # "done" => (MeasureNext < Measure /\ MeasureNext >= 0)
     /\ step'.type = "visited" => ~isVisited[step'.nodes[1]]
     /\ \A i, j \in 1 .. Len(openSet') : i # j => openSet'[i] # openSet'[j]
     /\ \A i \in 1 .. Len(openSet') : ~isVisited'[openSet'[i]]
    ]_vars

\* a run has completed after visiting at least three nodes
C17_Witness ==
  /\ pc = "done"
  /\ Cardinality({n \in Nodes : isVisited[n]}) >= 3


\* C18: when the generator completes after a successful run, the finish node
\* performStep hands to getNodesInShortestPathOrder is the node the generator
\* worked on, and the path is the full path from the start node to the goal,
\* however the run was driven.
C18_PathFromGeneratorGrid ==
  (pathCalled /\ pc = "done" /\ isVisited[finishNode]) =>
    /\ pathOnLive
    /\ path # <<>>
    /\ path[1] = startNode
    /\ path[Len(path)] = finishNode

\* C19: when the run ends in failure, the driver does not call
\* getNodesInShortestPathOrder and hands no node to animatePath.
C19_NoPathOnFailure ==
  (generatorRef /\ pc = "done" /\ ~isVisited[finishNode]) =>
    /\ ~pathCalled
    /\ path = <<>>

\* the step keeps the generator of generatorRef
SameGenerator ==
  /\ generatorRef
  /\ generatorRef'
  /\ pc' # "created"
  /\ ~(pc' = "yieldStart" /\ pc # "created")

\* the step is one of the mouse handlers (or changes nothing)
MouseStep ==
  UNCHANGED <<flagVars, generatorRef, intervalRef, playTimeout, nodeVars,
              genVars, pathCalled, path, pathOnLive>>

WallsOf(g) == {n \in DOMAIN g : g[n].isWall}

\* C20: under every interleaving of user events and timer ticks, no isWall
\* of the grid a generator works on changes between the generator's creation
\* and its completion or discarding; a generator exists only while the run
\* is running, paused or finished, and then the mouse handlers toggle
\* nothing.
C20_WallsLocked ==
  [][/\ generatorRef => (isRunning \/ isPaused \/ isFinished)
     /\ (SameGenerator /\ pc # "done") => isWall' = isWall
     /\ ((isRunning \/ isPaused \/ isFinished) /\ MouseStep) =>
          (WallsOf(Deref(grid)))' = WallsOf(Deref(grid))]_vars

\* a run on a grid with a wall is paused in the middle while the mouse is
\* still pressed: handleMouseEnter is called and toggles nothing
C20_Witness ==
  /\ generatorRef
  /\ isPaused
  /\ pc = "yieldOpen"
  /\ mouseIsPressed
  /\ grid.live
  /\ \E n \in Nodes : isWall[n]

\* next() was called on the generator of generatorRef
Advanced ==
  /\ SameGenerator
  /\ genVars' # genVars

\* C21: the driver never has more than one step timer active, and once
\* Pause or Reset has been handled next() is not called again until the user
\* issues Play or Step; a timer tick after Reset performs no step.
C21_StoppedStaysStopped ==
  [][/\ timers <= 1
     /\ timers' <= 1
     /\ (halted /\ halted') => ~Advanced]_vars

\* Reset was the last control the user issued, and the display clear its
\* handler deferred has run
Cleared ==
  /\ halted
  /\ ~isPaused
  /\ ~resetTimeout

\* C22: after Reset has been handled and its deferred display clear has
\* run, no callback left over from the previous run (a step timer tick or a
\* pending path-animation timeout) changes the display of any cell until the
\* next Play or Step: while no wall is drawn, every cell's className and
\* content stay as the clear left them.
C22_ClearedStaysCleared ==
  [][(Cleared /\ Cleared' /\ UNCHANGED <<grid, isWall>>)
       => UNCHANGED display]_vars

\* C23: after every handler at most one of isRunning, isPaused and
\* isFinished is true, for every sequence of Play, Pause, Step and Reset
\* events and timer ticks, a Step that consumes the generator's completion
\* included.
C23_FlagsExclusive ==
  /\ ~(isRunning /\ isPaused)
  /\ ~(isRunning /\ isFinished)
  /\ ~(isPaused /\ isFinished)
====
